---- MODULE Spec2Model ----
(***************************************************************************)
(* Folder/file hierarchy and soft-delete model of the drive clone's HTTP   *)
(* API: the Folder and File collections (lib/models schemas), the route    *)
(* handlers of /api/folders, /api/folders/[id], /api/files,                *)
(* /api/files/[id], /api/files/[id]/download and /api/files/[id]/preview,  *)
(* and the recursive cascade softDeleteFolderRecursive.                    *)
(*                                                                         *)
(* A document id is its position in the collection (ObjectIds are never    *)
(* reused and no document is ever removed).  Strings are sequences of      *)
(* one-character strings so that trim() and toLowerCase() are computed.    *)
(***************************************************************************)
EXTENDS Integers, Sequences, FiniteSets, TLC

\* ------------------------------------------------------------------ bounds
\* documents (folders and files together) ever created
MaxDocs == 3

\* --------------------------------------------------------------- constants
\* null of the schemas (parentId, folderId, deletedAt default) and of
\* authenticate's { user: null }
NULL == 0
\* the value of new Date() stored in deletedAt
ADate == 1
Users == {1, 2}
\* bearer tokens: none, the token of user 1, the token of user 2, a token
\* that verifies to no user
NoToken == 0
BadToken == 9
Tokens == {NoToken, BadToken} \cup Users
\* folder name maxlength, file name maximum, upload size maximum
MaxFolderNameLen == 100
MaxFileNameLen == 255
MAX_FILE_SIZE == 104857600
ALLOWED_FILE_TYPES == {"application/pdf", "text/plain"}

\* ----------------------------------------------------------------- strings
Str(s) == [isString |-> TRUE, s |-> s]
NotAString == [isString |-> FALSE, s |-> <<>>]

IsSpace(c) == c = " "

RECURSIVE TrimStart(_)
TrimStart(s) ==
    IF s # <<>> /\ IsSpace(Head(s)) THEN TrimStart(Tail(s)) ELSE s

RECURSIVE TrimEnd(_)
TrimEnd(s) ==
    IF s # <<>> /\ IsSpace(s[Len(s)]) THEN TrimEnd(SubSeq(s, 1, Len(s) - 1)) ELSE s

\* variant: trimmedName taken without trimming
Trim_None(s) == s

\* String.prototype.trim
Trim(s) == TrimEnd(TrimStart(s))

Lowers == <<"a", "b", "c", "l", "m", "n", "o", "p", "r", "t", "u", "x">>
Uppers == <<"A", "B", "C", "L", "M", "N", "O", "P", "R", "T", "U", "X">>

LowerChar(c) ==
    IF \E i \in 1..Len(Uppers) : Uppers[i] = c
    THEN Lowers[CHOOSE i \in 1..Len(Uppers) : Uppers[i] = c]
    ELSE c

UpperChar(c) ==
    IF \E i \in 1..Len(Lowers) : Lowers[i] = c
    THEN Uppers[CHOOSE i \in 1..Len(Lowers) : Lowers[i] = c]
    ELSE c

\* String.prototype.toUpperCase
ToUpper(s) == [i \in 1..Len(s) |-> UpperChar(s[i])]

\* String.prototype.toLowerCase
ToLower(s) == [i \in 1..Len(s) |-> LowerChar(s[i])]

\* ------------------------------------------------------------------- state
VARIABLES
    folders,    \* the Folder collection: sequence of documents, _id = index
    files,      \* the File collection: sequence of documents, _id = index
    cascade,    \* the DELETE /api/folders/[id] request in progress, when its
                \* store operations are taken one at a time: the user, the
                \* folder asked for, the collections as the request found
                \* them, and the call stack of softDeleteFolderRecursive
    blobs,      \* the upload directory: how many content objects writeFile
                \* has written (object k is the k-th written; none is ever
                \* removed)
    inflight,   \* the POST requests that have passed their duplicate check
                \* and not yet saved, when check and save are taken one at
                \* a time: the document to save, and how many documents the
                \* collection held when the check ran
    nav         \* the state of FilesProvider in the browser: currentFolder
                \* (the _id of the folder object held, NULL when it holds
                \* null or undefined), folders (the _ids of the list fetched
                \* last) and folderHistory

vars == <<folders, files, blobs, cascade, inflight, nav>>

DB == [folders |-> folders, files |-> files, blobs |-> blobs]

\* new Folder({name, userId, parentId}) with the schema defaults
NewFolder(name, userId, parentId) ==
    [name |-> name, userId |-> userId, parentId |-> parentId,
     isDeleted |-> FALSE, deletedAt |-> NULL]

\* variant: the document built without folderId
NewFile_AtRoot(originalName, size, mimeType, path, userId, folderId) ==
    [originalName |-> originalName, size |-> size, mimeType |-> mimeType,
     path |-> path,
     storageType |-> "cloud", cloudUrl |-> NULL,
     userId |-> userId, folderId |-> NULL,
     isDeleted |-> FALSE, deletedAt |-> NULL]

\* new File({name, originalName, size, type, mimeType, path, userId, folderId})
\* with the schema defaults (storageType 'cloud', cloudUrl null)
NewFile(originalName, size, mimeType, path, userId, folderId) ==
    [originalName |-> originalName, size |-> size, mimeType |-> mimeType,
     path |-> path,
     storageType |-> "cloud", cloudUrl |-> NULL,
     userId |-> userId, folderId |-> folderId,
     isDeleted |-> FALSE, deletedAt |-> NULL]

FolderIds(db) == 1..Len(db.folders)
FileIds(db) == 1..Len(db.files)

\* ------------------------------------------------------------ request data
\* a parentId / folderId as a request carries it: absent (null), the string
\* "root", the empty string, or the id of a document
PNull == [t |-> "null", id |-> NULL]
PRoot == [t |-> "root", id |-> NULL]
PEmpty == [t |-> "empty", id |-> NULL]
PId(i) == [t |-> "id", id |-> i]

\* JavaScript truthiness of a string-or-null request value
Truthy(p) == p.t \in {"root", "id"}

\* p || null, for a value that is an id when truthy
OrNull(p) == IF p.t = "id" THEN p.id ELSE NULL

Resp(status, error, body, db) ==
    [status |-> status, error |-> error, body |-> body, db |-> db]

\* ------------------------------------------------------------------- auth
\* extractTokenFromRequest: the bearer token or the cookie, else null
extractTokenFromRequest(tok) == tok

\* variant: a token that does not verify is taken for user 1's
getUserFromToken_NoVerify(tok) == IF tok \in Users THEN tok ELSE 1

\* getUserFromToken: the user a token verifies to, else null
getUserFromToken(tok) == IF tok \in Users THEN tok ELSE NULL

authenticate(tok) ==
    LET token == extractTokenFromRequest(tok) IN
    IF token = NoToken
    THEN [user |-> NULL, error |-> "No authentication token provided"]
    ELSE IF getUserFromToken(token) = NULL
         THEN [user |-> NULL, error |-> "Invalid or expired token"]
         ELSE [user |-> getUserFromToken(token), error |-> ""]

\* { error: error || 'Unauthorized' }, { status: 401 }
Unauthorized(auth, db) ==
    Resp(401, IF auth.error # "" THEN auth.error ELSE "Unauthorized", {}, db)

\* variant: the lookup without its userId filter
FindLiveFolder_AnyOwner(db, id, userId) ==
    /\ id \in FolderIds(db)
    /\ ~db.folders[id].isDeleted

\* ------------------------------------------------------------ store queries
\* variant: the lookup without its isDeleted filter
FindLiveFolder_IgnoresDeleted(db, id, userId) ==
    /\ id \in FolderIds(db)
    /\ db.folders[id].userId = userId

\* Folder.findOne({_id, userId, isDeleted: false})
FindLiveFolder(db, id, userId) ==
    /\ id \in FolderIds(db)
    /\ db.folders[id].userId = userId
    /\ ~db.folders[id].isDeleted

\* variant: the lookup without its userId filter
FindLiveFile_AnyOwner(db, id, userId) ==
    /\ id \in FileIds(db)
    /\ ~db.files[id].isDeleted

\* variant: the lookup without its isDeleted filter
FindLiveFile_IgnoresDeleted(db, id, userId) ==
    /\ id \in FileIds(db)
    /\ db.files[id].userId = userId

\* File.findOne({_id, userId, isDeleted: false})
FindLiveFile(db, id, userId) ==
    /\ id \in FileIds(db)
    /\ db.files[id].userId = userId
    /\ ~db.files[id].isDeleted

\* variant: the query written with isDeleted: true
ExistingFolder_DeletedOnly(db, name, userId, parentId, except) ==
    {i \in FolderIds(db) :
        /\ db.folders[i].name = name
        /\ db.folders[i].userId = userId
        /\ db.folders[i].parentId = parentId
        /\ db.folders[i].isDeleted
        /\ i # except}

\* variant: the query built without _id: {$ne: id}
ExistingFolder_WithSelf(db, name, userId, parentId, except) ==
    {i \in FolderIds(db) :
        /\ db.folders[i].name = name
        /\ db.folders[i].userId = userId
        /\ db.folders[i].parentId = parentId
        /\ ~db.folders[i].isDeleted}

\* Folder.findOne({name, userId, parentId, isDeleted: false, _id: {$ne: except}})
\* : the ids it can return (NULL as except excludes nothing)
ExistingFolder(db, name, userId, parentId, except) ==
    {i \in FolderIds(db) :
        /\ db.folders[i].name = name
        /\ db.folders[i].userId = userId
        /\ db.folders[i].parentId = parentId
        /\ ~db.folders[i].isDeleted
        /\ i # except}

\* variant: the query written with folderId: null whatever the scope
ExistingFile_WrongScope(db, originalName, userId, folderId, except) ==
    {i \in FileIds(db) :
        /\ db.files[i].originalName = originalName
        /\ db.files[i].userId = userId
        /\ db.files[i].folderId = NULL
        /\ ~db.files[i].isDeleted
        /\ i # except}

\* variant: the query written with isDeleted: true
ExistingFile_DeletedOnly(db, originalName, userId, folderId, except) ==
    {i \in FileIds(db) :
        /\ db.files[i].originalName = originalName
        /\ db.files[i].userId = userId
        /\ db.files[i].folderId = folderId
        /\ db.files[i].isDeleted
        /\ i # except}

\* File.findOne({originalName, userId, folderId, isDeleted: false, _id: {$ne: except}})
ExistingFile(db, originalName, userId, folderId, except) ==
    {i \in FileIds(db) :
        /\ db.files[i].originalName = originalName
        /\ db.files[i].userId = userId
        /\ db.files[i].folderId = folderId
        /\ ~db.files[i].isDeleted
        /\ i # except}

\* --------------------------------------------------------- /api/folders
\* GET /api/folders?parentId=
GET_folders(db, tok, parentId) ==
    LET auth == authenticate(tok)
        user == auth.user
        found == {i \in FolderIds(db) :
                    /\ db.folders[i].userId = user
                    /\ ~db.folders[i].isDeleted
                    /\ CASE parentId.t \in {"root", "null"} ->
                                db.folders[i].parentId = NULL
                         [] parentId.t = "id" ->
                                db.folders[i].parentId = parentId.id
                         [] OTHER -> TRUE}
    IN  IF user = NULL
        THEN Unauthorized(auth, db)
        ELSE Resp(200, "", found, db)

\* POST /api/folders {name, parentId}
POST_folders(db, tok, name, parentId) ==
    LET auth == authenticate(tok)
        user == auth.user
        trimmedName == Trim(name.s)
        newId == Len(db.folders) + 1
    IN  IF user = NULL THEN Unauthorized(auth, db)
        ELSE IF ~name.isString \/ name.s = <<>>
        THEN Resp(400, "Folder name is required", {}, db)
        ELSE IF Len(trimmedName) = 0
        THEN Resp(400, "Folder name cannot be empty", {}, db)
        ELSE IF Len(trimmedName) > MaxFolderNameLen
        THEN Resp(400, "Folder name cannot exceed 100 characters", {}, db)
        ELSE IF parentId.t = "root"
        \* Folder.findOne({_id: "root"}) throws a CastError: the catch block
        THEN Resp(500, "Failed to create folder", {}, db)
        ELSE IF Truthy(parentId) /\ ~FindLiveFolder(db, parentId.id, user)
        THEN Resp(404, "Parent folder not found", {}, db)
        ELSE IF ExistingFolder(db, trimmedName, user, OrNull(parentId), NULL) # {}
        THEN Resp(409, "A folder with this name already exists in this location", {}, db)
        ELSE Resp(201, "", {newId},
                  [db EXCEPT !.folders =
                      Append(@, NewFolder(trimmedName, user, OrNull(parentId)))])

\* ------------------------------------------- CreateFolderModal (client)
\* /[<>:"/\\|?*]/
InvalidChars == {"<", ">", ":", "\"", "/", "\\", "|", "?", "*"}

ReservedNames ==
    {<<"C", "O", "N">>, <<"P", "R", "N">>, <<"A", "U", "X">>, <<"N", "U", "L">>}
    \cup {<<"C", "O", "M", d>> : d \in {"1", "2", "3", "4", "5", "6", "7", "8", "9"}}
    \cup {<<"L", "P", "T", d>> : d \in {"1", "2", "3", "4", "5", "6", "7", "8", "9"}}

\* validateFolderName(name) of the modal, `listed` being the folders the
\* client holds and currentParentId the folder it shows: "" for null
validateFolderName(db, listed, currentParentId, name) ==
    IF Len(Trim(name)) = 0 THEN "Folder name is required"
    ELSE IF Len(Trim(name)) > MaxFolderNameLen
    THEN "Folder name cannot exceed 100 characters"
    ELSE IF \E i \in 1..Len(name) : name[i] \in InvalidChars
    THEN "Folder name contains invalid characters"
    ELSE IF ToUpper(Trim(name)) \in ReservedNames
    THEN "This folder name is reserved by the system"
    ELSE IF \E f \in listed :
                /\ ToLower(db.folders[f].name) = ToLower(Trim(name))
                /\ db.folders[f].parentId = currentParentId
    THEN "A folder with this name already exists in this location"
    ELSE ""

\* ---------------------------------------------------- /api/folders/[id]
\* GET /api/folders/[id]
GET_folder(db, tok, id) ==
    LET auth == authenticate(tok)
        user == auth.user
    IN  IF user = NULL THEN Unauthorized(auth, db)
        ELSE IF ~FindLiveFolder(db, id, user)
        THEN Resp(404, "Folder not found", {}, db)
        ELSE Resp(200, "", {id}, db)

\* variant: a rename that also writes the folder's own id as its parentId
PUT_folder_IntoItself(db, tok, id, name) ==
    LET auth == authenticate(tok)
        user == auth.user
        trimmedName == Trim(name.s)
    IN  IF user = NULL THEN Unauthorized(auth, db)
        ELSE IF ~name.isString \/ name.s = <<>> \/ Len(trimmedName) = 0
        THEN Resp(400, "Folder name is required", {}, db)
        ELSE IF ~FindLiveFolder(db, id, user)
        THEN Resp(404, "Folder not found", {}, db)
        ELSE Resp(200, "", {id}, [db EXCEPT !.folders[id].name = trimmedName,
                                            !.folders[id].parentId = id])

\* variant: a rename that also writes parentId: null
PUT_folder_MovesToRoot(db, tok, id, name) ==
    LET auth == authenticate(tok)
        user == auth.user
        trimmedName == Trim(name.s)
    IN  IF user = NULL THEN Unauthorized(auth, db)
        ELSE IF ~name.isString \/ name.s = <<>> \/ Len(trimmedName) = 0
        THEN Resp(400, "Folder name is required", {}, db)
        ELSE IF ~FindLiveFolder(db, id, user)
        THEN Resp(404, "Folder not found", {}, db)
        ELSE Resp(200, "", {id}, [db EXCEPT !.folders[id].name = trimmedName,
                                            !.folders[id].parentId = NULL])

\* PUT /api/folders/[id] {name}
PUT_folder(db, tok, id, name) ==
    LET auth == authenticate(tok)
        user == auth.user
        trimmedName == Trim(name.s)
    IN  IF user = NULL THEN Unauthorized(auth, db)
        ELSE IF ~name.isString \/ name.s = <<>>
        THEN Resp(400, "Folder name is required", {}, db)
        ELSE IF Len(trimmedName) = 0
        THEN Resp(400, "Folder name cannot be empty", {}, db)
        ELSE IF Len(trimmedName) > MaxFolderNameLen
        THEN Resp(400, "Folder name cannot exceed 100 characters", {}, db)
        ELSE IF ~FindLiveFolder(db, id, user)
        THEN Resp(404, "Folder not found", {}, db)
        ELSE IF ExistingFolder(db, trimmedName, user, db.folders[id].parentId, id) # {}
        THEN Resp(409, "A folder with this name already exists in this location", {}, db)
        ELSE Resp(200, "", {id}, [db EXCEPT !.folders[id].name = trimmedName])

\* Folder.findOneAndUpdate({_id, userId}, {isDeleted: true, deletedAt: new Date()})
MarkFolderDeleted(db, folderId, userId) ==
    IF folderId \in FolderIds(db) /\ db.folders[folderId].userId = userId
    THEN [db EXCEPT !.folders[folderId].isDeleted = TRUE,
                    !.folders[folderId].deletedAt = ADate]
    ELSE db

\* variant: the updateMany filter without folderId
MarkFilesDeleted_AllOfUser(db, folderId, userId) ==
    [db EXCEPT !.files =
        [i \in FileIds(db) |->
            IF db.files[i].userId = userId /\ ~db.files[i].isDeleted
            THEN [db.files[i] EXCEPT !.isDeleted = TRUE, !.deletedAt = ADate]
            ELSE db.files[i]]]

\* File.updateMany({folderId, userId, isDeleted: false},
\*                 {isDeleted: true, deletedAt: new Date()})
MarkFilesDeleted(db, folderId, userId) ==
    [db EXCEPT !.files =
        [i \in FileIds(db) |->
            IF /\ db.files[i].folderId = folderId
               /\ db.files[i].userId = userId
               /\ ~db.files[i].isDeleted
            THEN [db.files[i] EXCEPT !.isDeleted = TRUE, !.deletedAt = ADate]
            ELSE db.files[i]]]

\* variant: the cascade that never descends
LiveSubfolders_None(db, folderId, userId) == {}

\* variant: the query built without isDeleted: false
LiveSubfolders_WithDeleted(db, folderId, userId) ==
    {i \in FolderIds(db) :
        /\ db.folders[i].parentId = folderId
        /\ db.folders[i].userId = userId}

\* Folder.find({parentId: folderId, userId, isDeleted: false})
LiveSubfolders(db, folderId, userId) ==
    {i \in FolderIds(db) :
        /\ db.folders[i].parentId = folderId
        /\ db.folders[i].userId = userId
        /\ ~db.folders[i].isDeleted}

Min(S) == CHOOSE x \in S : \A y \in S : x <= y

RECURSIVE softDeleteFolderRecursive(_, _, _)
RECURSIVE ForEachSubfolder(_, _, _)

\* for (const subfolder of subfolders) await softDeleteFolderRecursive(...)
ForEachSubfolder(db, subfolders, userId) ==
    IF subfolders = {} THEN db
    ELSE ForEachSubfolder(softDeleteFolderRecursive(db, Min(subfolders), userId),
                          subfolders \ {Min(subfolders)}, userId)

\* variant: children first, and the folder itself marked only when it had no
\* live subfolder to descend into
softDeleteFolderRecursive_LeafOnly(db, folderId, userId) ==
    LET db1 == MarkFilesDeleted(db, folderId, userId)
        subfolders == LiveSubfolders(db1, folderId, userId)
        db2 == ForEachSubfolder(db1, subfolders, userId)
    IN  IF subfolders = {} THEN MarkFolderDeleted(db2, folderId, userId) ELSE db2

softDeleteFolderRecursive(db, folderId, userId) ==
    LET db1 == MarkFolderDeleted(db, folderId, userId)
        db2 == MarkFilesDeleted(db1, folderId, userId)
    IN  ForEachSubfolder(db2, LiveSubfolders(db2, folderId, userId), userId)

\* DELETE /api/folders/[id]
DELETE_folder(db, tok, id) ==
    LET auth == authenticate(tok)
        user == auth.user
    IN  IF user = NULL THEN Unauthorized(auth, db)
        ELSE IF ~FindLiveFolder(db, id, user)
        THEN Resp(404, "Folder not found", {}, db)
        ELSE Resp(200, "", {}, softDeleteFolderRecursive(db, id, user))

\* ------------------------------------------------------------ /api/files
isAllowedFileType(mimeType) == mimeType \in ALLOWED_FILE_TYPES

\* variant: validateFileUpload without the size check
validateFileUpload_NoSizeCheck(file) ==
    IF ~isAllowedFileType(file.type) THEN "File type is not allowed"
    ELSE IF Len(file.name) > MaxFileNameLen THEN "Filename is too long (maximum 255 characters)"
    ELSE IF Len(Trim(file.name)) = 0 THEN "Filename cannot be empty"
    ELSE ""

\* validateFileUpload({size, type, name}): "" when valid, else the error
validateFileUpload(file) ==
    IF file.size > MAX_FILE_SIZE THEN "File size exceeds maximum allowed size"
    ELSE IF ~isAllowedFileType(file.type) THEN "File type is not allowed"
    ELSE IF Len(file.name) > MaxFileNameLen THEN "Filename is too long (maximum 255 characters)"
    ELSE IF Len(Trim(file.name)) = 0 THEN "Filename cannot be empty"
    ELSE ""

\* variant: the query built without isDeleted: false
GET_files_WithDeleted(db, tok, folderId) ==
    LET auth == authenticate(tok)
        user == auth.user
        found == {i \in FileIds(db) :
                    /\ db.files[i].userId = user
                    /\ CASE folderId.t \in {"root", "null"} ->
                                db.files[i].folderId = NULL
                         [] folderId.t = "id" ->
                                db.files[i].folderId = folderId.id
                         [] OTHER -> TRUE}
    IN  IF user = NULL THEN Unauthorized(auth, db)
        ELSE Resp(200, "", found, db)

\* GET /api/files?folderId=
GET_files(db, tok, folderId) ==
    LET auth == authenticate(tok)
        user == auth.user
        found == {i \in FileIds(db) :
                    /\ db.files[i].userId = user
                    /\ ~db.files[i].isDeleted
                    /\ CASE folderId.t \in {"root", "null"} ->
                                db.files[i].folderId = NULL
                         [] folderId.t = "id" ->
                                db.files[i].folderId = folderId.id
                         [] OTHER -> TRUE}
    IN  IF user = NULL THEN Unauthorized(auth, db)
        ELSE Resp(200, "", found, db)

\* POST /api/files (multipart: file, folderId); file.present is
\* formData.get('file') being there.  folderId is absent, "root" or an id.
POST_files(db, tok, file, folderId) ==
    LET auth == authenticate(tok)
        user == auth.user
        validation == validateFileUpload(file)
        target == IF folderId.t = "root" THEN NULL ELSE OrNull(folderId)
        newId == Len(db.files) + 1
    IN  IF user = NULL THEN Unauthorized(auth, db)
        ELSE IF ~file.present
        THEN Resp(400, "No file provided", {}, db)
        ELSE IF validation # ""
        THEN Resp(400, validation, {}, db)
        ELSE IF Truthy(folderId) /\ folderId.t # "root"
                /\ ~FindLiveFolder(db, folderId.id, user)
        THEN Resp(404, "Folder not found", {}, db)
        ELSE IF ExistingFile(db, file.name, user, target, NULL) # {}
        THEN Resp(409, "A file with this name already exists in this location", {}, db)
        ELSE Resp(201, "", {newId},
                  [db EXCEPT
                      !.blobs = @ + 1,
                      !.files = Append(@, NewFile(file.name, file.size, file.type,
                                                  db.blobs + 1, user, target))])

\* ------------------------------------------------------- /api/files/[id]
\* GET /api/files/[id]
GET_file(db, tok, id) ==
    LET auth == authenticate(tok)
        user == auth.user
    IN  IF user = NULL THEN Unauthorized(auth, db)
        ELSE IF ~FindLiveFile(db, id, user)
        THEN Resp(404, "File not found", {}, db)
        ELSE Resp(200, "", {id}, db)

\* PUT /api/files/[id] {originalName}
PUT_file(db, tok, id, originalName) ==
    LET auth == authenticate(tok)
        user == auth.user
        trimmedName == Trim(originalName.s)
    IN  IF user = NULL THEN Unauthorized(auth, db)
        ELSE IF ~originalName.isString \/ originalName.s = <<>>
        THEN Resp(400, "File name is required", {}, db)
        ELSE IF Len(trimmedName) = 0
        THEN Resp(400, "File name cannot be empty", {}, db)
        ELSE IF Len(trimmedName) > MaxFileNameLen
        THEN Resp(400, "File name cannot exceed 255 characters", {}, db)
        ELSE IF ~FindLiveFile(db, id, user)
        THEN Resp(404, "File not found", {}, db)
        ELSE IF ExistingFile(db, trimmedName, user, db.files[id].folderId, id) # {}
        THEN Resp(409, "A file with this name already exists in this location", {}, db)
        ELSE Resp(200, "", {id}, [db EXCEPT !.files[id].originalName = trimmedName])

\* variant: File.findOneAndDelete in place of the soft delete
MarkFileDeleted_Removes(db, id, userId) ==
    IF id \in FileIds(db) /\ db.files[id].userId = userId
    THEN [db EXCEPT !.files = SubSeq(@, 1, id - 1) \o SubSeq(@, id + 1, Len(@))]
    ELSE db

\* variant: the update filtered by folder instead of by _id
MarkFileDeleted_WholeFolder(db, id, userId) ==
    IF id \in FileIds(db) /\ db.files[id].userId = userId
    THEN [db EXCEPT !.files =
            [j \in 1..Len(@) |->
                IF @[j].userId = userId /\ @[j].folderId = @[id].folderId
                THEN [@[j] EXCEPT !.isDeleted = TRUE, !.deletedAt = ADate]
                ELSE @[j]]]
    ELSE db

\* File.findOneAndUpdate({_id, userId}, {isDeleted: true, deletedAt: new Date()})
MarkFileDeleted(db, id, userId) ==
    IF id \in FileIds(db) /\ db.files[id].userId = userId
    THEN [db EXCEPT !.files[id].isDeleted = TRUE, !.files[id].deletedAt = ADate]
    ELSE db

\* DELETE /api/files/[id]
DELETE_file(db, tok, id) ==
    LET auth == authenticate(tok)
        user == auth.user
    IN  IF user = NULL THEN Unauthorized(auth, db)
        ELSE IF ~FindLiveFile(db, id, user)
        THEN Resp(404, "File not found", {}, db)
        ELSE Resp(200, "", {}, MarkFileDeleted(db, id, user))

\* GET /api/files/[id]/download
GET_download(db, tok, id) ==
    LET auth == authenticate(tok)
        user == auth.user
    IN  IF user = NULL THEN Unauthorized(auth, db)
        ELSE IF ~FindLiveFile(db, id, user)
        THEN Resp(404, "File not found", {}, db)
        ELSE IF db.files[id].storageType = "cloud" /\ db.files[id].cloudUrl # NULL
        THEN Resp(307, "", {id}, db)
        ELSE IF db.files[id].storageType = "local"
        THEN Resp(400, "Local file download not supported. Please use cloud storage.", {}, db)
        ELSE Resp(400, "File storage type not supported", {}, db)

\* GET /api/files/[id]/preview
GET_preview(db, tok, id) ==
    LET auth == authenticate(tok)
        user == auth.user
    IN  IF user = NULL THEN Unauthorized(auth, db)
        ELSE IF ~FindLiveFile(db, id, user)
        THEN Resp(404, "File not found", {}, db)
        ELSE IF db.files[id].storageType = "cloud" /\ db.files[id].cloudUrl # NULL
        THEN Resp(307, "", {id}, db)
        ELSE IF db.files[id].storageType = "local"
        THEN Resp(400, "Local file preview not supported. Please use cloud storage.", {}, db)
        ELSE Resp(400, "File storage type not supported", {}, db)

\* ---------------------------------------------------------------- inputs
FolderNameInputs ==
    {NotAString, Str(<<>>), Str(<<" ">>), Str(<<"A">>), Str(<<"a">>), Str(<<" ", "a">>)}

FileNameInputs ==
    {NotAString, Str(<<>>), Str(<<" ">>), Str(<<"x">>), Str(<<"y">>), Str(<<"x", " ">>)}

UploadFile(name, size, type) ==
    [present |-> TRUE, name |-> name, size |-> size, type |-> type]
NoFile == [present |-> FALSE, name |-> <<>>, size |-> 0, type |-> ""]

UploadInputs ==
    {UploadFile(<<"x">>, 2097152, "application/pdf"),
     UploadFile(<<"y">>, 2097152, "application/pdf"),
     UploadFile(<<" ">>, 2097152, "application/pdf"),
     UploadFile(<<"x">>, MAX_FILE_SIZE + 1, "application/pdf"),
     UploadFile(<<"x">>, 2097152, "application/x-msdownload"),
     NoFile}

\* ids a request can name: every id in use and one that is not
FolderIdInputs == 1..(Len(folders) + 1)
FileIdInputs == 1..(Len(files) + 1)

ParentInputs == {PNull, PRoot, PEmpty} \cup {PId(i) : i \in FolderIdInputs}
UploadFolderInputs == {PNull, PRoot} \cup {PId(i) : i \in FolderIdInputs}

\* no DELETE /api/folders/[id] request is in progress
Idle == [user |-> NULL, root |-> NULL, pre |-> [folders |-> <<>>, files |-> <<>>, blobs |-> 0],
         stack |-> <<>>]

\* --------------------------------------------------------------- requests
\* A request handler runs to completion: its effect on the collections is
\* the db of its response.  The response itself (status, error, body) is the
\* value of the handler operator.
Handle(r) ==
    /\ cascade = Idle
    /\ folders' = r.db.folders
    /\ files' = r.db.files
    /\ blobs' = r.db.blobs
    /\ UNCHANGED <<nav, cascade, inflight>>

ListFolders(tok, parentId) == Handle(GET_folders(DB, tok, parentId))

CreateFolder(tok, name, parentId) ==
    LET r == POST_folders(DB, tok, name, parentId) IN
    /\ r.status = 201 => Len(folders) + Len(files) < MaxDocs
    /\ Handle(r)

GetFolder(tok, id) == Handle(GET_folder(DB, tok, id))

RenameFolder(tok, id, name) == Handle(PUT_folder(DB, tok, id, name))

DeleteFolder(tok, id) == Handle(DELETE_folder(DB, tok, id))

ListFiles(tok, folderId) == Handle(GET_files(DB, tok, folderId))

Upload(tok, file, folderId) ==
    LET r == POST_files(DB, tok, file, folderId) IN
    /\ r.status = 201 => Len(folders) + Len(files) < MaxDocs
    /\ Handle(r)

GetFile(tok, id) == Handle(GET_file(DB, tok, id))

RenameFile(tok, id, name) == Handle(PUT_file(DB, tok, id, name))

DeleteFile(tok, id) == Handle(DELETE_file(DB, tok, id))

Download(tok, id) == Handle(GET_download(DB, tok, id))

Preview(tok, id) == Handle(GET_preview(DB, tok, id))

\* ----------------------------------------------------------- specification
Init ==
    /\ folders = <<>>
    /\ files = <<>>
    /\ blobs = 0
    /\ cascade = Idle
    /\ inflight = <<>>
    /\ nav = [currentFolder |-> NULL, folders |-> {}, folderHistory |-> <<NULL>>]

Next ==
    \/ \E tok \in Tokens, p \in ParentInputs : ListFolders(tok, p)
    \/ \E tok \in Tokens, n \in FolderNameInputs, p \in ParentInputs : CreateFolder(tok, n, p)
    \/ \E tok \in Tokens, id \in FolderIdInputs : GetFolder(tok, id)
    \/ \E tok \in Tokens, id \in FolderIdInputs, n \in FolderNameInputs : RenameFolder(tok, id, n)
    \/ \E tok \in Tokens, id \in FolderIdInputs : DeleteFolder(tok, id)
    \/ \E tok \in Tokens, p \in ParentInputs : ListFiles(tok, p)
    \/ \E tok \in Tokens, f \in UploadInputs, p \in UploadFolderInputs : Upload(tok, f, p)
    \/ \E tok \in Tokens, id \in FileIdInputs : GetFile(tok, id)
    \/ \E tok \in Tokens, id \in FileIdInputs, n \in FileNameInputs : RenameFile(tok, id, n)
    \/ \E tok \in Tokens, id \in FileIdInputs : DeleteFile(tok, id)
    \/ \E tok \in Tokens, id \in FileIdInputs : Download(tok, id)
    \/ \E tok \in Tokens, id \in FileIdInputs : Preview(tok, id)

Spec == Init /\ [][Next]_vars

\* ------------------------------------- the cascade, one store call a step
\* a call softDeleteFolderRecursive(folderId, userId) about to run `pc`
Frame(folderId, pc, subfolders) ==
    [folderId |-> folderId, pc |-> pc, subfolders |-> subfolders]

Top == cascade.stack[Len(cascade.stack)]
SetTop(frame) == [cascade EXCEPT !.stack[Len(cascade.stack)] = frame]

\* DELETE /api/folders/[id] up to the call of softDeleteFolderRecursive:
\* authenticate and Folder.findOne; a 401 or 404 ends the request here
BeginDeleteFolder(tok, id) ==
    LET auth == authenticate(tok) IN
    /\ cascade = Idle
    /\ auth.user # NULL
    /\ FindLiveFolder(DB, id, auth.user)
    /\ cascade' = [user |-> auth.user, root |-> id, pre |-> DB,
                   stack |-> <<Frame(id, "markFolder", {})>>]
    /\ UNCHANGED <<nav, folders, files, blobs, inflight>>

\* variant: the call goes on to the files without marking its folder
CascadeMarkFolder_Skipped ==
    /\ cascade # Idle /\ Top.pc = "markFolder"
    /\ folders' = folders
    /\ cascade' = SetTop([Top EXCEPT !.pc = "markFiles"])
    /\ UNCHANGED <<nav, files, blobs, inflight>>

\* await Folder.findOneAndUpdate({_id: folderId, userId}, {isDeleted: true, ...})
CascadeMarkFolder ==
    /\ cascade # Idle /\ Top.pc = "markFolder"
    /\ folders' = MarkFolderDeleted(DB, Top.folderId, cascade.user).folders
    /\ cascade' = SetTop([Top EXCEPT !.pc = "markFiles"])
    /\ UNCHANGED <<nav, files, blobs, inflight>>

\* await File.updateMany({folderId, userId, isDeleted: false}, {isDeleted: true, ...})
CascadeMarkFiles ==
    /\ cascade # Idle /\ Top.pc = "markFiles"
    /\ files' = MarkFilesDeleted(DB, Top.folderId, cascade.user).files
    /\ cascade' = SetTop([Top EXCEPT !.pc = "findSubfolders"])
    /\ UNCHANGED <<nav, folders, blobs, inflight>>

\* const subfolders = await Folder.find({parentId: folderId, userId, isDeleted: false})
CascadeFindSubfolders ==
    /\ cascade # Idle /\ Top.pc = "findSubfolders"
    /\ cascade' = SetTop([Top EXCEPT
            !.pc = "loop",
            !.subfolders = LiveSubfolders(DB, Top.folderId, cascade.user)])
    /\ UNCHANGED <<nav, folders, files, blobs, inflight>>

\* for (const subfolder of subfolders): the next subfolder's recursive call
\* (find() promises no order of its result)
CascadeRecurse(sub) ==
    /\ cascade # Idle /\ Top.pc = "loop"
    /\ sub \in Top.subfolders
    /\ cascade' = [cascade EXCEPT !.stack =
            Append(SetTop([Top EXCEPT !.subfolders = @ \ {sub}]).stack,
                   Frame(sub, "markFolder", {}))]
    /\ UNCHANGED <<nav, folders, files, blobs, inflight>>

\* the loop is over: the call returns; the outermost return ends the request
\* with 200 'Folder deleted successfully'
CascadeReturn ==
    /\ cascade # Idle /\ Top.pc = "loop"
    /\ Top.subfolders = {}
    /\ cascade' = IF Len(cascade.stack) = 1 THEN Idle
                  ELSE [cascade EXCEPT !.stack = SubSeq(@, 1, Len(@) - 1)]
    /\ UNCHANGED <<nav, folders, files, blobs, inflight>>

\* the process dies (or the request is dropped) between two store calls of a
\* cascade: the writes made so far stay, the rest never happen
Crash ==
    /\ cascade # Idle
    /\ cascade' = Idle
    /\ UNCHANGED <<nav, folders, files, blobs, inflight>>

\* requests one at a time, the cascade in steps and open to interruption
NextCrash ==
    \/ \E tok \in Users, n \in {Str(<<"A">>), Str(<<"a">>)}, p \in ParentInputs :
            CreateFolder(tok, n, p)
    \/ \E tok \in Users, f \in UploadInputs, p \in UploadFolderInputs : Upload(tok, f, p)
    \/ \E tok \in Users, id \in FileIdInputs : DeleteFile(tok, id)
    \/ \E tok \in Tokens, id \in FolderIdInputs : BeginDeleteFolder(tok, id)
    \/ CascadeMarkFolder
    \/ CascadeMarkFiles
    \/ CascadeFindSubfolders
    \/ \E sub \in FolderIds(DB) : CascadeRecurse(sub)
    \/ CascadeReturn
    \/ Crash

SpecCrash == Init /\ [][NextCrash]_vars

\* one store call or one control step of the running cascade
CascadeStep ==
    \/ CascadeMarkFolder
    \/ CascadeMarkFiles
    \/ CascadeFindSubfolders
    \/ \E sub \in FolderIds(DB) : CascadeRecurse(sub)
    \/ CascadeReturn

\* requests one at a time, the cascade in steps and never interrupted
NextCascade ==
    \/ \E tok \in Users, n \in {Str(<<"A">>), Str(<<"a">>)}, p \in ParentInputs :
            CreateFolder(tok, n, p)
    \/ \E tok \in Users, f \in UploadInputs, p \in UploadFolderInputs : Upload(tok, f, p)
    \/ \E tok \in Users, id \in FileIdInputs : DeleteFile(tok, id)
    \/ \E tok \in Tokens, id \in FolderIdInputs : BeginDeleteFolder(tok, id)
    \/ CascadeMarkFolder
    \/ CascadeMarkFiles
    \/ CascadeFindSubfolders
    \/ \E sub \in FolderIds(DB) : CascadeRecurse(sub)
    \/ CascadeReturn

\* every await of the cascade resumes once the store has answered, and the
\* store answers: a cascade that can take a step takes one
SpecCascade == Init /\ [][NextCascade]_vars /\ WF_vars(CascadeStep)

\* ------------------------- POST requests, duplicate check and save apart
\* a request between its duplicate check and its save: the document it
\* will save, how many documents the collection held when the check ran,
\* and, for an upload, the content object written so far (NULL: none yet)
Pending(kind, doc, seen) == [kind |-> kind, doc |-> doc, seen |-> seen, blob |-> NULL]

RemoveAt(s, k) == SubSeq(s, 1, k - 1) \o SubSeq(s, k + 1, Len(s))

\* documents and content objects written so far, and requests in flight
\* that have yet to write; the sum is capped by MaxDocs
Written == Len(folders) + blobs

Unwritten == Cardinality({k \in 1..Len(inflight) : inflight[k].blob = NULL})

\* POST /api/folders up to and including Folder.findOne of the duplicate
\* check, for a request that passes every check (the others answer at once
\* and write nothing)
CheckCreateFolder(tok, name, parentId) ==
    LET r == POST_folders(DB, tok, name, parentId) IN
    /\ cascade = Idle
    /\ r.status = 201
    /\ Written + Unwritten < MaxDocs
    /\ inflight' = Append(inflight,
            Pending("folder", r.db.folders[Len(r.db.folders)], Len(folders)))
    /\ UNCHANGED <<nav, folders, files, blobs, cascade>>

\* await folder.save() of that request
SaveFolder(k) ==
    /\ k \in 1..Len(inflight)
    /\ inflight[k].kind = "folder"
    /\ folders' = Append(folders, inflight[k].doc)
    /\ inflight' = RemoveAt(inflight, k)
    /\ UNCHANGED <<nav, files, blobs, cascade>>

\* POST /api/files up to and including File.findOne of the duplicate check
CheckUpload(tok, file, folderId) ==
    LET r == POST_files(DB, tok, file, folderId) IN
    /\ cascade = Idle
    /\ r.status = 201
    /\ Written + Unwritten < MaxDocs
    /\ inflight' = Append(inflight,
            Pending("file", r.db.files[Len(r.db.files)], Len(files)))
    /\ UNCHANGED <<nav, folders, files, blobs, cascade>>

\* await writeFile(fullPath, buffer) of that request
WriteBlob(k) ==
    /\ k \in 1..Len(inflight)
    /\ inflight[k].kind = "file"
    /\ inflight[k].blob = NULL
    /\ blobs' = blobs + 1
    /\ inflight' = [inflight EXCEPT ![k].blob = blobs + 1]
    /\ UNCHANGED <<nav, folders, files, cascade>>

\* new File({..., path: filePath, ...}); await fileRecord.save()
SaveFile(k) ==
    /\ k \in 1..Len(inflight)
    /\ inflight[k].kind = "file"
    /\ inflight[k].blob # NULL
    /\ files' = Append(files, [inflight[k].doc EXCEPT !.path = inflight[k].blob])
    /\ inflight' = RemoveAt(inflight, k)
    /\ UNCHANGED <<nav, folders, blobs, cascade>>

\* writeFile or save() throws: the catch block answers 500 'Failed to
\* upload file'; what was written so far stays
UploadFails(k) ==
    /\ k \in 1..Len(inflight)
    /\ inflight[k].kind = "file"
    /\ inflight' = RemoveAt(inflight, k)
    /\ UNCHANGED <<nav, folders, files, blobs, cascade>>

\* requests of several clients at once: a POST's duplicate check, its
\* content write and its save are separate operations, other requests fall
\* between them
NextRace ==
    \/ \E tok \in Users, n \in {Str(<<"A">>), Str(<<"a">>)}, p \in ParentInputs :
            CheckCreateFolder(tok, n, p)
    \/ \E k \in 1..Len(inflight) : SaveFolder(k)
    \/ \E tok \in Users, f \in UploadInputs, p \in UploadFolderInputs :
            CheckUpload(tok, f, p)
    \/ \E k \in 1..Len(inflight) : WriteBlob(k)
    \/ \E k \in 1..Len(inflight) : SaveFile(k)
    \/ \E k \in 1..Len(inflight) : UploadFails(k)
    \/ \E tok \in Users, id \in FolderIdInputs : DeleteFolder(tok, id)
    \/ \E tok \in Users, id \in FileIdInputs : DeleteFile(tok, id)

SpecRace == Init /\ [][NextRace]_vars

\* ------------------------------------------- FilesProvider (the browser)
\* the longest folderHistory followed
MaxHistory == 4

\* currentFolder?._id || 'root' as the query string of the two list requests
CurrentFolderId == IF nav.currentFolder = NULL THEN PRoot ELSE PId(nav.currentFolder)

\* fetchData(): both lists of the current folder, as the signed-in user 1;
\* setFolders only when both requests succeed
FetchData ==
    LET filesResult == GET_files(DB, 1, CurrentFolderId)
        foldersResult == GET_folders(DB, 1, CurrentFolderId)
    IN  /\ cascade = Idle
        /\ nav' = IF filesResult.status = 200 /\ foldersResult.status = 200
                  THEN [nav EXCEPT !.folders = foldersResult.body]
                  ELSE nav
        /\ UNCHANGED <<folders, files, blobs, cascade, inflight>>

\* folderId ? folders.find(f => f._id === folderId) : null; find gives
\* undefined when the list fetched last does not hold the folder
FindInList(folderId) ==
    IF folderId # NULL /\ folderId \in nav.folders THEN folderId ELSE NULL

\* navigateToFolder(folderId)
NavigateToFolder(folderId) ==
    /\ Len(nav.folderHistory) < MaxHistory
    /\ nav' = [nav EXCEPT
            !.currentFolder = FindInList(folderId),
            !.folderHistory = Append(@, folderId)]
    /\ UNCHANGED <<folders, files, blobs, cascade, inflight>>

\* goBack()
GoBack ==
    LET newHistory == SubSeq(nav.folderHistory, 1, Len(nav.folderHistory) - 1)
        previousFolderId == newHistory[Len(newHistory)]
    IN  /\ nav' = IF Len(nav.folderHistory) > 1
                  THEN [nav EXCEPT
                            !.folderHistory = newHistory,
                            !.currentFolder = FindInList(previousFolderId)]
                  ELSE nav
        /\ UNCHANGED <<folders, files, blobs, cascade, inflight>>

\* the ids the components call navigateToFolder with: null (header and
\* sidebar 'My Drive', first breadcrumb), a folder of the list shown
\* (FileList), the folder shown (last breadcrumb)
NavInputs == {NULL} \cup nav.folders \cup {nav.currentFolder}

\* the user of the browser creates folders, the lists are fetched, and the
\* user follows folders, breadcrumbs and the back control
NextNav ==
    \/ \E n \in {Str(<<"A">>), Str(<<"a">>)}, p \in ParentInputs : CreateFolder(1, n, p)
    \/ FetchData
    \/ \E folderId \in NavInputs : NavigateToFolder(folderId)
    \/ GoBack

SpecNav == Init /\ [][NextNav]_vars

\* ================================================================= claims
\* ------------------------------------------------- helpers of the claims
LiveFolder(db, i) == i \in FolderIds(db) /\ ~db.folders[i].isDeleted
LiveFile(db, i) == i \in FileIds(db) /\ ~db.files[i].isDeleted

\* folder x lies strictly below folder f: x's parentId chain passes through f
RECURSIVE IsUnder(_, _, _, _)
IsUnder(db, x, f, fuel) ==
    IF fuel = 0 \/ x \notin FolderIds(db) THEN FALSE
    ELSE \/ db.folders[x].parentId = f
         \/ IsUnder(db, db.folders[x].parentId, f, fuel - 1)

\* f and every folder reachable from f by child links; the files in them
SubtreeFolders(db, f) ==
    {f} \cup {x \in FolderIds(db) : IsUnder(db, x, f, Len(db.folders))}
SubtreeFiles(db, f) ==
    {i \in FileIds(db) : db.files[i].folderId \in SubtreeFolders(db, f)}

\* the fields the properties speak of: names, parents, owners, delete flags
FolderCore(d) ==
    [name |-> d.name, userId |-> d.userId, parentId |-> d.parentId,
     isDeleted |-> d.isDeleted]
FileCore(d) ==
    [originalName |-> d.originalName, userId |-> d.userId,
     folderId |-> d.folderId, isDeleted |-> d.isDeleted]
Core(db) ==
    [folders |-> [i \in FolderIds(db) |-> FolderCore(db.folders[i])],
     files |-> [i \in FileIds(db) |-> FileCore(db.files[i])]]

\* C1: in every reachable state no two live folders with the same
\* (userId, parentId) have names that are equal ignoring letter case.
C1_FolderNamesUniqueIgnoringCase ==
    \A i, j \in FolderIds(DB) :
        (/\ i # j
         /\ LiveFolder(DB, i) /\ LiveFolder(DB, j)
         /\ folders[i].userId = folders[j].userId
         /\ folders[i].parentId = folders[j].parentId)
        => ToLower(folders[i].name) # ToLower(folders[j].name)

\* C2: in every reachable state no two live files with the same
\* (userId, folderId) have equal originalName.
C2_FileNamesUnique ==
    \A i, j \in FileIds(DB) :
        (/\ i # j
         /\ LiveFile(DB, i) /\ LiveFile(DB, j)
         /\ files[i].userId = files[j].userId
         /\ files[i].folderId = files[j].folderId)
        => files[i].originalName # files[j].originalName

\* two live files share a scope under different names, and uploading the
\* name of one of them again is refused
C2_Witness ==
    \E i, j \in FileIds(DB) :
        /\ i # j
        /\ LiveFile(DB, i) /\ LiveFile(DB, j)
        /\ files[i].userId = files[j].userId
        /\ files[i].folderId = files[j].folderId
        /\ files[i].folderId # NULL
        /\ POST_files(DB, files[i].userId,
                      UploadFile(files[i].originalName, 2097152, "application/pdf"),
                      PId(files[i].folderId)).status = 409

C5_CascadeFrame ==
    \A tok \in Tokens : \A f \in FolderIdInputs :
        LET r == DELETE_folder(DB, tok, f) IN
        /\ Len(r.db.folders) = Len(folders) /\ Len(r.db.files) = Len(files)
        /\ \A x \in FolderIds(DB) \ SubtreeFolders(DB, f) :
              r.db.folders[x] = folders[x]
        /\ \A i \in FileIds(DB) \ SubtreeFiles(DB, f) :
              r.db.files[i] = files[i]

\* a folder and its file are deleted while a file of the same user outside
\* of it is live
C5_Witness ==
    \E a \in FolderIds(DB) : \E x, y \in FileIds(DB) :
        /\ folders[a].isDeleted /\ files[x].isDeleted /\ files[x].folderId = a
        /\ LiveFile(DB, y) /\ files[y].folderId # a
        /\ files[y].userId = folders[a].userId

\* C6: deleteFolder(f) twice in a row leaves the same folders and files
\* (names, parents, owners, delete flags) as deleteFolder(f) once.
C6_DeleteTwiceSameAsOnce ==
    \A tok \in Tokens : \A f \in FolderIdInputs :
        LET once == DELETE_folder(DB, tok, f)
            twice == DELETE_folder(once.db, tok, f)
        IN  Core(twice.db) = Core(once.db)

\* after a cascade over a folder with a child folder, the owner's second
\* deleteFolder finds nothing
C6_Witness ==
    \E a, b \in FolderIds(DB) :
        /\ folders[a].isDeleted /\ folders[b].isDeleted
        /\ folders[b].parentId = a
        /\ DELETE_folder(DB, folders[a].userId, a).status = 404

\* the cascade taken step by step and left alone ends in the state the
\* handler computes in one go
CascadeAgreesWithHandler ==
    [][(CascadeReturn /\ cascade' = Idle)
       => [folders |-> folders', files |-> files', blobs |-> blobs']
            = DELETE_folder(cascade.pre, cascade.user, cascade.root).db]_vars

\* part of f's subtree is still live although f is deleted
PartiallyDeleted(db, f) ==
    /\ db.folders[f].isDeleted
    /\ \/ \E x \in SubtreeFolders(db, f) : LiveFolder(db, x)
       \/ \E i \in SubtreeFiles(db, f) : LiveFile(db, i)

\* C7: when an interrupted cascade has left f deleted and part of f's
\* subtree live, deleteFolder(f) by the owner, run again, answers 200 and
\* leaves every folder and file of the subtree soft-deleted.
C7_RerunCompletesCascade ==
    cascade = Idle =>
        \A f \in FolderIds(DB) :
            PartiallyDeleted(DB, f)
            => LET r == DELETE_folder(DB, folders[f].userId, f) IN
               /\ r.status = 200
               /\ \A x \in SubtreeFolders(DB, f) : r.db.folders[x].isDeleted
               /\ \A i \in SubtreeFiles(DB, f) : r.db.files[i].isDeleted

\* a name PUT /api/folders/[id] and POST /api/folders accept: a string that
\* is non-empty after trim and of at most 100 characters
WellFormedFolderName(n) ==
    n.isString /\ Len(Trim(n.s)) > 0 /\ Len(Trim(n.s)) <= MaxFolderNameLen
WellFormedFileName(n) ==
    n.isString /\ Len(Trim(n.s)) > 0 /\ Len(Trim(n.s)) <= MaxFileNameLen

\* C8: a soft-deleted folder or file answers NotFound (404) to every get,
\* delete, download, preview and well-formed rename by any user, a rename
\* with a malformed name is refused as invalid (400), none of these changes
\* a document, and no listing returns it.
C8_DeletedIsNotFound ==
    \A tok \in Users :
        /\ \A id \in FolderIds(DB) : folders[id].isDeleted =>
              /\ GET_folder(DB, tok, id).status = 404
              /\ DELETE_folder(DB, tok, id).status = 404
              /\ DELETE_folder(DB, tok, id).db = DB
              /\ \A n \in FolderNameInputs :
                    /\ PUT_folder(DB, tok, id, n).status =
                          IF WellFormedFolderName(n) THEN 404 ELSE 400
                    /\ PUT_folder(DB, tok, id, n).db = DB
              /\ \A p \in ParentInputs : id \notin GET_folders(DB, tok, p).body
        /\ \A id \in FileIds(DB) : files[id].isDeleted =>
              /\ GET_file(DB, tok, id).status = 404
              /\ DELETE_file(DB, tok, id).status = 404
              /\ DELETE_file(DB, tok, id).db = DB
              /\ GET_download(DB, tok, id).status = 404
              /\ GET_preview(DB, tok, id).status = 404
              /\ \A n \in FileNameInputs :
                    /\ PUT_file(DB, tok, id, n).status =
                          IF WellFormedFileName(n) THEN 404 ELSE 400
                    /\ PUT_file(DB, tok, id, n).db = DB
              /\ \A p \in ParentInputs : id \notin GET_files(DB, tok, p).body

\* C8 as stated, for rename: every rename addressed to a soft-deleted folder
\* or file answers NotFound (404), whatever the new name.
C8_EveryRenameIsNotFound ==
    \A tok \in Users :
        /\ \A id \in FolderIds(DB) : folders[id].isDeleted =>
              \A n \in FolderNameInputs : PUT_folder(DB, tok, id, n).status = 404
        /\ \A id \in FileIds(DB) : files[id].isDeleted =>
              \A n \in FileNameInputs : PUT_file(DB, tok, id, n).status = 404

\* Scenario B: "A" at root, "B" inside it, a file inside "B", then "A"
\* deleted: the listing of root has no "A", "B" and the file are not found
C8_Witness ==
    \E a, b \in FolderIds(DB) : \E x \in FileIds(DB) :
        /\ folders[a].parentId = NULL /\ folders[b].parentId = a
        /\ files[x].folderId = b
        /\ folders[a].isDeleted
        /\ a \notin GET_folders(DB, folders[a].userId, PRoot).body
        /\ GET_folder(DB, folders[a].userId, b).status = 404
        /\ GET_file(DB, folders[a].userId, x).status = 404

\* C9: createFolder and renameFolder with a name that differs only in letter
\* case from the name of another live folder of the same (userId, parentId)
\* answer DuplicateName (409) and change no folder.
C9_CaseOnlyDuplicateRejected ==
    \A tok \in Users : \A n \in FolderNameInputs :
        LET CaseTwin(j, parentId, except) ==
                /\ LiveFolder(DB, j) /\ j # except
                /\ folders[j].userId = tok
                /\ folders[j].parentId = parentId
                /\ folders[j].name # Trim(n.s)
                /\ ToLower(folders[j].name) = ToLower(Trim(n.s))
        IN  /\ \A p \in ParentInputs \ {PRoot} :
                  (\E j \in FolderIds(DB) : CaseTwin(j, OrNull(p), NULL))
                  => /\ POST_folders(DB, tok, n, p).status = 409
                     /\ POST_folders(DB, tok, n, p).db = DB
            /\ \A id \in FolderIds(DB) :
                  (/\ FindLiveFolder(DB, id, tok)
                   /\ \E j \in FolderIds(DB) : CaseTwin(j, folders[id].parentId, id))
                  => /\ PUT_folder(DB, tok, id, n).status = 409
                     /\ PUT_folder(DB, tok, id, n).db = DB

\* the scope an upload's folderId names
UploadScope(p) == IF p.t = "root" THEN NULL ELSE OrNull(p)

\* the live files of user u in scope p that carry the name n
SameNamed(db, u, scope, n) ==
    {i \in FileIds(db) :
        /\ LiveFile(db, i)
        /\ db.files[i].userId = u
        /\ db.files[i].folderId = scope
        /\ db.files[i].originalName = n}

Blank(n) == n.isString /\ \A i \in 1..Len(n.s) : n.s[i] = " "

\* C11: a rename of a folder or a file to a name that is empty or only
\* white space answers ValidationError (400) and leaves every document, the
\* target included, exactly as it was.
C11_BlankRenameRejected ==
    \A tok \in Users :
        /\ \A id \in FolderIdInputs : \A n \in FolderNameInputs :
              Blank(n) => /\ PUT_folder(DB, tok, id, n).status = 400
                          /\ PUT_folder(DB, tok, id, n).db = DB
        /\ \A id \in FileIdInputs : \A n \in FileNameInputs :
              Blank(n) => /\ PUT_file(DB, tok, id, n).status = 400
                          /\ PUT_file(DB, tok, id, n).db = DB

\* Scenario E: a live file (and a live folder) of a user, renamed by that
\* user to the empty string and to a blank
C11_Witness ==
    \E f \in FolderIds(DB) : \E x \in FileIds(DB) :
        /\ LiveFolder(DB, f) /\ LiveFile(DB, x)
        /\ folders[f].userId = files[x].userId
        /\ PUT_file(DB, files[x].userId, x, Str(<<>>)).status = 400
        /\ PUT_file(DB, files[x].userId, x, Str(<<" ">>)).status = 400
        /\ PUT_folder(DB, folders[f].userId, f, Str(<<" ">>)).status = 400

\* C12: whatever its answer, a rename of folder id leaves the files, the
\* number of folders and every other folder as they were, and changes at
\* most the name of folder id (its parentId, userId and soft-delete fields
\* stay); likewise a rename of a file and its originalName.
C12_RenameFrame ==
    \A tok \in Tokens :
        /\ \A id \in FolderIdInputs : \A n \in FolderNameInputs :
              LET r == PUT_folder(DB, tok, id, n) IN
              /\ r.db.files = files
              /\ Len(r.db.folders) = Len(folders)
              /\ \A i \in FolderIds(DB) :
                    [r.db.folders[i] EXCEPT !.name = folders[i].name] = folders[i]
              /\ \A i \in FolderIds(DB) \ {id} : r.db.folders[i] = folders[i]
        /\ \A id \in FileIdInputs : \A n \in FileNameInputs :
              LET r == PUT_file(DB, tok, id, n) IN
              /\ r.db.folders = folders
              /\ Len(r.db.files) = Len(files)
              /\ \A i \in FileIds(DB) :
                    [r.db.files[i] EXCEPT !.originalName = files[i].originalName]
                        = files[i]
              /\ \A i \in FileIds(DB) \ {id} : r.db.files[i] = files[i]

\* a live folder inside another folder, with a live file in it, where a
\* rename of the folder and a rename of the file both succeed and change
\* the stored name
C12_Witness ==
    \E f \in FolderIds(DB) : \E x \in FileIds(DB) :
        /\ LiveFolder(DB, f) /\ folders[f].parentId # NULL
        /\ LiveFile(DB, x) /\ files[x].folderId = f
        /\ \E n \in FolderNameInputs :
              /\ PUT_folder(DB, folders[f].userId, f, n).status = 200
              /\ PUT_folder(DB, folders[f].userId, f, n).db.folders[f].name
                    # folders[f].name
        /\ \E n \in FileNameInputs :
              /\ PUT_file(DB, files[x].userId, x, n).status = 200
              /\ PUT_file(DB, files[x].userId, x, n).db.files[x].originalName
                    # files[x].originalName

\* folder id i does not resolve to a live folder of user u: it is absent,
\* soft-deleted, or owned by another user
Unresolved(db, i, u) ==
    \/ i \notin FolderIds(db)
    \/ db.folders[i].isDeleted
    \/ db.folders[i].userId # u

LongName == [i \in 1..(MaxFolderNameLen + 1) |-> "a"]
DeviceNames == {<<"C", "O", "N">>, <<"N", "U", "L">>, <<"C", "O", "M", "1">>,
                <<"L", "P", "T", "9">>}
NamesToRefuse ==
    {<<>>, <<" ">>, LongName} \cup DeviceNames \cup {<<"a", c>> : c \in InvalidChars}

\* the modal's validateFolderName refuses every one of these names, and the
\* server refuses the empty, the blank and the long one
RefusedByModalAndPartlyByServer ==
    /\ \A n \in NamesToRefuse : validateFolderName(DB, {}, NULL, n) # ""
    /\ \A tok \in Users : \A n \in {<<>>, <<" ">>, LongName} :
          /\ POST_folders(DB, tok, Str(n), PNull).status = 400
          /\ POST_folders(DB, tok, Str(n), PNull).db = DB

\* C14: createFolder answers ValidationError (400) and creates no folder for
\* every name that is empty after trimming, longer than 100 characters, a
\* reserved device name, or holds one of the characters < > : " / \ | ? *.
C14_InvalidNamesRefused ==
    \A tok \in Users : \A n \in NamesToRefuse :
        \A p \in {PNull} \cup {PId(i) : i \in FolderIds(DB)} :
            /\ POST_folders(DB, tok, Str(n), p).status = 400
            /\ POST_folders(DB, tok, Str(n), p).db = DB

\* file id i does not resolve to a live file of user u
UnresolvedFile(db, i, u) ==
    \/ i \notin FileIds(db)
    \/ db.files[i].isDeleted
    \/ db.files[i].userId # u

\* C15: to caller U, a get, delete, download, preview or rename addressed to
\* an id that is soft-deleted or another user's answers exactly what it
\* answers for an id that does not exist (same status, message and body),
\* and changes no document; for get, delete, download, preview and a rename
\* with a well-formed name that answer is NotFound (404), for a rename with
\* a malformed name it is ValidationError (400).
C15_NotFoundIndistinguishable ==
    \A tok \in Users :
        LET noFolder == Len(folders) + 1
            noFile == Len(files) + 1
        IN
        /\ \A i \in FolderIdInputs : Unresolved(DB, i, tok) =>
              /\ GET_folder(DB, tok, i) = Resp(404, "Folder not found", {}, DB)
              /\ DELETE_folder(DB, tok, i) = Resp(404, "Folder not found", {}, DB)
              /\ \A n \in FolderNameInputs :
                    /\ PUT_folder(DB, tok, i, n) = PUT_folder(DB, tok, noFolder, n)
                    /\ PUT_folder(DB, tok, i, n).db = DB
                    /\ PUT_folder(DB, tok, i, n).status =
                          IF WellFormedFolderName(n) THEN 404 ELSE 400
        /\ \A i \in FileIdInputs : UnresolvedFile(DB, i, tok) =>
              /\ GET_file(DB, tok, i) = Resp(404, "File not found", {}, DB)
              /\ DELETE_file(DB, tok, i) = Resp(404, "File not found", {}, DB)
              /\ GET_download(DB, tok, i) = Resp(404, "File not found", {}, DB)
              /\ GET_preview(DB, tok, i) = Resp(404, "File not found", {}, DB)
              /\ \A n \in FileNameInputs :
                    /\ PUT_file(DB, tok, i, n) = PUT_file(DB, tok, noFile, n)
                    /\ PUT_file(DB, tok, i, n).db = DB
                    /\ PUT_file(DB, tok, i, n).status =
                          IF WellFormedFileName(n) THEN 404 ELSE 400

\* C15 as stated, for rename: a rename addressed to an id that is absent,
\* soft-deleted or another user's answers NotFound (404) whatever the name.
C15_RenameAlwaysNotFound ==
    \A tok \in Users :
        /\ \A i \in FolderIdInputs : \A n \in FolderNameInputs :
              Unresolved(DB, i, tok) => PUT_folder(DB, tok, i, n).status = 404
        /\ \A i \in FileIdInputs : \A n \in FileNameInputs :
              UnresolvedFile(DB, i, tok) => PUT_file(DB, tok, i, n).status = 404

\* user 1 addresses a soft-deleted file of its own, a live file of user 2
\* and an id not in use, and a soft-deleted folder of its own
C15_Witness ==
    \E d, o \in FileIds(DB) : \E g \in FolderIds(DB) :
        /\ files[d].userId = 1 /\ files[d].isDeleted
        /\ files[o].userId = 2 /\ ~files[o].isDeleted
        /\ folders[g].userId = 1 /\ folders[g].isDeleted
        /\ GET_file(DB, 1, d) = GET_file(DB, 1, o)
        /\ GET_file(DB, 1, o) = GET_file(DB, 1, Len(files) + 1)
        /\ GET_file(DB, 2, o).status = 200
        /\ GET_folder(DB, 1, g) = GET_folder(DB, 1, Len(folders) + 1)

\* the 401 answer to a request carrying token tok
AuthError(tok) ==
    Resp(401, IF tok = NoToken THEN "No authentication token provided"
              ELSE "Invalid or expired token", {}, DB)

\* C16: every operation invoked with no token, or with a token that
\* resolves to no user, answers 401 with the authentication error and
\* changes no document, whatever the rest of the request: malformed names,
\* a missing or invalid file, ids of any kind are never looked at.
C16_AuthFirst ==
    \A tok \in {NoToken, BadToken} :
        /\ \A p \in ParentInputs :
              /\ GET_folders(DB, tok, p) = AuthError(tok)
              /\ GET_files(DB, tok, p) = AuthError(tok)
              /\ \A n \in FolderNameInputs :
                    POST_folders(DB, tok, n, p) = AuthError(tok)
        /\ \A p \in UploadFolderInputs : \A f \in UploadInputs :
              POST_files(DB, tok, f, p) = AuthError(tok)
        /\ \A i \in FolderIdInputs :
              /\ GET_folder(DB, tok, i) = AuthError(tok)
              /\ DELETE_folder(DB, tok, i) = AuthError(tok)
              /\ \A n \in FolderNameInputs : PUT_folder(DB, tok, i, n) = AuthError(tok)
        /\ \A i \in FileIdInputs :
              /\ GET_file(DB, tok, i) = AuthError(tok)
              /\ DELETE_file(DB, tok, i) = AuthError(tok)
              /\ GET_download(DB, tok, i) = AuthError(tok)
              /\ GET_preview(DB, tok, i) = AuthError(tok)
              /\ \A n \in FileNameInputs : PUT_file(DB, tok, i, n) = AuthError(tok)

\* a live folder holding a live file: with the owner's token the requests
\* succeed (or fail validation), without a token the same requests are 401
C16_Witness ==
    \E f \in FolderIds(DB) : \E x \in FileIds(DB) :
        /\ LiveFolder(DB, f) /\ LiveFile(DB, x) /\ files[x].folderId = f
        /\ DELETE_folder(DB, folders[f].userId, f).status = 200
        /\ DELETE_folder(DB, NoToken, f).status = 401
        /\ GET_file(DB, files[x].userId, x).status = 200
        /\ GET_file(DB, BadToken, x).status = 401
        /\ PUT_file(DB, files[x].userId, x, Str(<<>>)).status = 400
        /\ PUT_file(DB, NoToken, x, Str(<<>>)).status = 401

\* listing folders, listing files and upload answer the same, with the same
\* effect, for "root" as for an omitted (null) folder id
RootIsNullInListsAndUpload ==
    \A tok \in Users :
        /\ GET_folders(DB, tok, PRoot) = GET_folders(DB, tok, PNull)
        /\ GET_files(DB, tok, PRoot) = GET_files(DB, tok, PNull)
        /\ \A f \in UploadInputs :
              POST_files(DB, tok, f, PRoot) = POST_files(DB, tok, f, PNull)

\* C17: list folders, list files, upload and create folder have the same
\* result and effect when given "root" as when given no (null) parent.
C17_RootIsNull ==
    /\ RootIsNullInListsAndUpload
    /\ \A tok \in Users : \A n \in FolderNameInputs :
          POST_folders(DB, tok, n, PRoot) = POST_folders(DB, tok, n, PNull)

\* the request values that denote scope s: null and "root" for the top
\* level, the id itself for a folder
ScopeParams(s) == IF s = NULL THEN {PNull, PRoot} ELSE {PId(s)}

\* C18: for user U and scope p (the top level or a folder id), listing
\* folders returns exactly the live folders with userId U and parentId p,
\* listing files exactly the live files with userId U and folderId p, and
\* neither changes a document.
C18_ListingExact ==
    \A tok \in Users : \A s \in {NULL} \cup FolderIdInputs : \A p \in ScopeParams(s) :
        /\ GET_folders(DB, tok, p).status = 200
        /\ GET_folders(DB, tok, p).db = DB
        /\ GET_folders(DB, tok, p).body =
              {i \in 1..Len(folders) :
                  /\ ~folders[i].isDeleted
                  /\ folders[i].userId = tok
                  /\ folders[i].parentId = s}
        /\ GET_files(DB, tok, p).status = 200
        /\ GET_files(DB, tok, p).db = DB
        /\ GET_files(DB, tok, p).body =
              {i \in 1..Len(files) :
                  /\ ~files[i].isDeleted
                  /\ files[i].userId = tok
                  /\ files[i].folderId = s}

\* at the top level: a live file of user 1, a soft-deleted file of user 1
\* and a live file of user 2; user 1's listing is the first alone
C18_Witness ==
    \E a, d, o \in FileIds(DB) :
        /\ files[a].userId = 1 /\ ~files[a].isDeleted /\ files[a].folderId = NULL
        /\ files[d].userId = 1 /\ files[d].isDeleted /\ files[d].folderId = NULL
        /\ files[o].userId = 2 /\ ~files[o].isDeleted /\ files[o].folderId = NULL
        /\ GET_files(DB, 1, PNull).body = {a}

\* the folders met when following parentId from folder x, x first, for at
\* most fuel steps; ends at root (NULL) or at an id that is no folder
RECURSIVE ParentChain(_, _, _)
ParentChain(db, x, fuel) ==
    IF fuel = 0 \/ x \notin FolderIds(db) THEN <<>>
    ELSE <<x>> \o ParentChain(db, db.folders[x].parentId, fuel - 1)

\* following parentId from x ends at root within as many steps as there
\* are folders, every id on the way being a folder met once
EndsAtRoot(db, x) ==
    LET chain == ParentChain(db, x, Len(db.folders) + 1) IN
    /\ Len(chain) <= Len(db.folders)
    /\ \A k \in 1..Len(chain) :
          /\ \A m \in 1..Len(chain) : chain[k] = chain[m] => k = m
          /\ db.folders[chain[k]].parentId \in FolderIds(db) \cup {NULL}
    /\ db.folders[chain[Len(chain)]].parentId = NULL

\* C19: in every reachable state, following parentId from any folder
\* reaches root (null) in finitely many steps without visiting a folder id
\* twice.
C19_NoCycles ==
    \A x \in FolderIds(DB) : EndsAtRoot(DB, x)

\* a folder inside a folder inside a folder, the two inner ones under
\* different names
C19_Witness ==
    \E a, b, c \in FolderIds(DB) :
        /\ folders[a].parentId = NULL
        /\ folders[b].parentId = a
        /\ folders[c].parentId = b
        /\ folders[c].name # folders[b].name
        /\ ParentChain(DB, c, Len(folders) + 1) = <<c, b, a>>

\* live folders i # j of one user and one parent with equal names
TwinFolders(db, i, j) ==
    /\ i # j /\ LiveFolder(db, i) /\ LiveFolder(db, j)
    /\ db.folders[i].userId = db.folders[j].userId
    /\ db.folders[i].parentId = db.folders[j].parentId
    /\ db.folders[i].name = db.folders[j].name

\* live files i # j of one user and one folder with equal originalName
TwinFiles(db, i, j) ==
    /\ i # j /\ LiveFile(db, i) /\ LiveFile(db, j)
    /\ db.files[i].userId = db.files[j].userId
    /\ db.files[i].folderId = db.files[j].folderId
    /\ db.files[i].originalName = db.files[j].originalName

\* C20: with the duplicate check and the insert as separate store
\* operations, a save makes a same-named live sibling pair exactly when the
\* sibling was inserted after the saving request's check had run: the two
\* requests overlapped, each passing its check before the other's insert.
C20_TwinsOnlyByRace ==
    [][/\ Len(folders') = Len(folders) + 1 =>
            \A i \in FolderIds(DB) :
                TwinFolders([folders |-> folders', files |-> files'],
                            i, Len(folders'))
                => \E k \in 1..Len(inflight) :
                        /\ inflight[k].kind = "folder"
                        /\ inflight' = RemoveAt(inflight, k)
                        /\ inflight[k].seen < i
       /\ Len(files') = Len(files) + 1 =>
            \A i \in FileIds(DB) :
                TwinFiles([folders |-> folders', files |-> files'],
                          i, Len(files'))
                => \E k \in 1..Len(inflight) :
                        /\ inflight[k].kind = "file"
                        /\ inflight' = RemoveAt(inflight, k)
                        /\ inflight[k].seen < i]_vars

\* two createFolder requests of one user with the same name and parent have
\* both passed the check and both saved: two live same-named siblings
C20_Witness ==
    /\ inflight = <<>>
    /\ \E i, j \in FolderIds(DB) : TwinFolders(DB, i, j)

\* ------------------------------------------------------------------ C21
\* an upload that has yet to write its content
Admitted(k) ==
    /\ k \in 1..Len(inflight)
    /\ inflight[k].kind = "file"
    /\ inflight[k].blob = NULL

\* the document of an upload passes the size, type and name validation
ValidUpload(doc) ==
    /\ doc.size <= MAX_FILE_SIZE
    /\ doc.mimeType \in ALLOWED_FILE_TYPES
    /\ Len(doc.originalName) <= MaxFileNameLen
    /\ \E i \in 1..Len(doc.originalName) : ~IsSpace(doc.originalName[i])

\* the parent folder of the document is the root or a live folder of its
\* owner, and no live file of that scope has its name
ScopeFree(doc) ==
    /\ doc.folderId # NULL =>
            /\ doc.folderId \in 1..Len(folders)
            /\ ~folders[doc.folderId].isDeleted
            /\ folders[doc.folderId].userId = doc.userId
    /\ \A j \in 1..Len(files) :
            ~(/\ ~files[j].isDeleted
              /\ files[j].userId = doc.userId
              /\ files[j].folderId = doc.folderId
              /\ files[j].originalName = doc.originalName)

\* C21: an upload is admitted past its checks only when size, type and name
\* are valid, the parent folder resolves and the name is free, and nothing is
\* written by that step; content is written only by an admitted upload, one
\* object at a time and with no File record; a File record is inserted only
\* by an upload whose content is written, and points at that content; an
\* upload answered with an error writes neither content nor record
C21_WriteAfterChecks ==
    [][/\ Len(inflight') > Len(inflight) /\ inflight'[Len(inflight')].kind = "file" =>
            /\ ValidUpload(inflight'[Len(inflight')].doc)
            /\ ScopeFree(inflight'[Len(inflight')].doc)
            /\ inflight'[Len(inflight')].blob = NULL
            /\ blobs' = blobs /\ files' = files
       /\ blobs' # blobs =>
            /\ blobs' = blobs + 1
            /\ files' = files
            /\ \E k \in 1..Len(inflight) :
                    /\ Admitted(k)
                    /\ inflight' = [inflight EXCEPT ![k].blob = blobs']
       /\ Len(files') > Len(files) =>
            /\ blobs' = blobs
            /\ \E k \in 1..Len(inflight) :
                    /\ inflight[k].kind = "file"
                    /\ inflight[k].blob \in 1..blobs
                    /\ files' = Append(files, [inflight[k].doc EXCEPT !.path = inflight[k].blob])
       /\ \A tok \in Tokens, f \in UploadInputs, p \in UploadFolderInputs :
            LET r == POST_files(DB, tok, f, p) IN
            r.status # 201 => r.db.blobs = blobs /\ r.db.files = files
      ]_vars

\* an upload's record is saved after its content was written, and another
\* upload's content was written but its record never saved
C21_Witness ==
    /\ Len(files) >= 1
    /\ files[Len(files)].path \in 1..blobs
    /\ blobs > Len(files)
    /\ inflight = <<>>

\* ------------------------------------------------------------------ C22
\* the scope an upload request names: null for absent or "root"
ScopeOf(p) == IF p.t = "id" THEN p.id ELSE NULL

\* C22: a successful upload of a file of allowed size and type leaves the
\* folders and the earlier files as they were and adds exactly one File,
\* live, with the uploaded name and size, owned by the caller, in the scope
\* the request named
C22_UploadCreatesOneFile ==
    \A tok \in Tokens, f \in UploadInputs, p \in UploadFolderInputs :
        LET r == POST_files(DB, tok, f, p)
            n == Len(files) + 1
        IN  r.status = 201 /\ f.size <= MAX_FILE_SIZE /\ f.type \in ALLOWED_FILE_TYPES =>
                /\ r.db.folders = folders
                /\ Len(r.db.files) = n
                /\ SubSeq(r.db.files, 1, Len(files)) = files
                /\ ~r.db.files[n].isDeleted
                /\ r.db.files[n].originalName = f.name
                /\ r.db.files[n].size = f.size
                /\ r.db.files[n].userId = tok
                /\ r.db.files[n].folderId = ScopeOf(p)

\* user 1 can upload "x" of 2 MB (2097152 bytes) into a live folder
C22_Witness ==
    \E i \in 1..Len(folders) :
        POST_files(DB, 1, UploadFile(<<"x">>, 2097152, "application/pdf"), PId(i)).status = 201

\* ------------------------------------------------------------------ C23
\* C23: no step removes a Folder or File record, and no step clears a
\* soft-delete flag: the collections never shrink, and a record whose
\* isDeleted is true keeps it true
C23_RecordsOnlyGrow ==
    [][/\ Len(folders') >= Len(folders)
       /\ Len(files') >= Len(files)
       /\ \A i \in 1..Len(folders) : folders[i].isDeleted => folders'[i].isDeleted
       /\ \A i \in 1..Len(files) : files[i].isDeleted => files'[i].isDeleted
      ]_vars

\* a soft-deleted folder and a soft-deleted file, with a record created
\* after the folder
C23_Witness ==
    /\ \E i \in 1..Len(folders) : folders[i].isDeleted /\ Len(folders) > i
    /\ \E j \in 1..Len(files) : files[j].isDeleted

\* ------------------------------------------------------------------ C24
\* C24: DELETE of a live file by its owner succeeds, sets isDeleted and a
\* deletion timestamp on that File, leaves every other File and every
\* Folder as it was, and removes nothing from the stored content
C24_DeleteFileFrame ==
    \A tok \in Users, id \in 1..Len(files) :
        LET r == DELETE_file(DB, tok, id) IN
        ~files[id].isDeleted /\ files[id].userId = tok =>
            /\ r.status = 200
            /\ r.db.files[id].isDeleted
            /\ r.db.files[id].deletedAt # NULL
            /\ r.db.files =
                    [files EXCEPT ![id].isDeleted = r.db.files[id].isDeleted,
                                  ![id].deletedAt = r.db.files[id].deletedAt]
            /\ r.db.folders = folders
            /\ r.db.blobs = blobs

\* a live file of user 1 next to another live file of the same scope
C24_Witness ==
    \E i, j \in 1..Len(files) :
        /\ i # j
        /\ ~files[i].isDeleted /\ ~files[j].isDeleted
        /\ files[i].userId = 1 /\ files[j].userId = 1
        /\ files[i].folderId = files[j].folderId
        /\ DELETE_file(DB, 1, i).status = 200

\* ------------------------------------------------------------------ C25
\* the folders the running cascade has calls open for
OnStack == {cascade.stack[k].folderId : k \in 1..Len(cascade.stack)}

\* C25: every running cascade ends (its outermost call returns), and it
\* enters a folder at most once: a recursive call is made only for a live
\* folder lying below the deleted folder that no open call is for, and the
\* first thing a call does is mark its folder, so no folder is entered again
C25_CascadeTerminates ==
    /\ (cascade # Idle) ~> (cascade = Idle)
    /\ [][cascade # Idle /\ cascade' # Idle /\ Len(cascade'.stack) > Len(cascade.stack) =>
            LET f == cascade'.stack[Len(cascade'.stack)] IN
            /\ f.pc = "markFolder"
            /\ f.folderId \in 1..Len(folders)
            /\ ~folders[f.folderId].isDeleted
            /\ f.folderId \notin OnStack
            /\ IsUnder(DB, f.folderId, cascade.root, Len(folders))
         ]_vars

\* a nested call of the cascade is about to return to its caller
C25_Witness ==
    /\ cascade # Idle
    /\ Len(cascade.stack) = 2
    /\ cascade.stack[2].pc = "loop"
    /\ cascade.stack[2].subfolders = {}
    /\ folders[cascade.stack[2].folderId].isDeleted

\* ------------------------------------------------------------------ C26
\* folder i / file j was live when the running cascade began and is
\* soft-deleted now
FolderMarkedByCascade(i) ==
    /\ i \in 1..Len(folders)
    /\ folders[i].isDeleted
    /\ ~cascade.pre.folders[i].isDeleted
FileMarkedByCascade(j) ==
    /\ j \in 1..Len(files)
    /\ files[j].isDeleted
    /\ ~cascade.pre.files[j].isDeleted

\* C26: while a cascade runs, a folder it has marked, other than the one the
\* request named, has its parent marked; a file it has marked has its folder
\* marked; and a folder it has marked has no live file directly in its
\* parent (the parent's files are marked before its child folders)
C26_TopDown ==
    cascade # Idle =>
        /\ \A i \in 1..Len(folders) :
                FolderMarkedByCascade(i) /\ i # cascade.root =>
                    /\ folders[i].parentId \in 1..Len(folders)
                    /\ folders[folders[i].parentId].isDeleted
                    /\ \A j \in 1..Len(files) :
                            /\ files[j].folderId = folders[i].parentId
                            /\ files[j].userId = cascade.user
                            => files[j].isDeleted
        /\ \A j \in 1..Len(files) :
                FileMarkedByCascade(j) =>
                    /\ files[j].folderId \in 1..Len(folders)
                    /\ folders[files[j].folderId].isDeleted

\* a cascade in progress has marked a child folder and a file
C26_Witness ==
    /\ cascade # Idle
    /\ \E i \in 1..Len(folders) : FolderMarkedByCascade(i) /\ i # cascade.root
    /\ \E j \in 1..Len(files) : FileMarkedByCascade(j)

\* ------------------------------------------------------------------ C27
\* C27: every live file (each was created by a successful upload) can be
\* downloaded by its owner: the download answers with a redirect to the
\* content, not with 404 nor with an unsupported-storage error
C27_UploadedFileDownloadable ==
    \A id \in 1..Len(files) :
        ~files[id].isDeleted =>
            GET_download(DB, files[id].userId, id).status = 307

\* ------------------------------------------------------------------ C28
\* a live folder / file of user u in scope p has the name n, other than the
\* document `self`
LiveFolderNamed(u, p, n, self) ==
    \E i \in 1..Len(folders) :
        /\ i # self
        /\ ~folders[i].isDeleted
        /\ folders[i].userId = u
        /\ folders[i].parentId = p
        /\ folders[i].name = n
LiveFileNamed(u, p, n, self) ==
    \E j \in 1..Len(files) :
        /\ j # self
        /\ ~files[j].isDeleted
        /\ files[j].userId = u
        /\ files[j].folderId = p
        /\ files[j].originalName = n

\* C28: create, upload and rename answer 409 only when another live entity
\* of the caller in the same scope has the name: soft-deleted siblings and
\* the renamed entity itself do not count
C28_DuplicateOnlyAmongOtherLive ==
    /\ \A tok \in Users, n \in FolderNameInputs, p \in ParentInputs :
            POST_folders(DB, tok, n, p).status = 409 =>
                LiveFolderNamed(tok, ScopeOf(p), Trim(n.s), NULL)
    /\ \A tok \in Users, id \in 1..Len(folders), n \in FolderNameInputs :
            PUT_folder(DB, tok, id, n).status = 409 =>
                LiveFolderNamed(tok, folders[id].parentId, Trim(n.s), id)
    /\ \A tok \in Users, f \in UploadInputs, p \in UploadFolderInputs :
            POST_files(DB, tok, f, p).status = 409 =>
                LiveFileNamed(tok, ScopeOf(p), f.name, NULL)
    /\ \A tok \in Users, id \in 1..Len(files), n \in FileNameInputs :
            PUT_file(DB, tok, id, n).status = 409 =>
                LiveFileNamed(tok, files[id].folderId, Trim(n.s), id)

\* a soft-deleted folder whose name can be created again in its scope, and a
\* live folder and a live file that can each be renamed to its own name
C28_Witness ==
    /\ \E i \in 1..Len(folders) :
            /\ folders[i].isDeleted
            /\ folders[i].parentId = NULL
            /\ POST_folders(DB, folders[i].userId, Str(folders[i].name), PNull).status = 201
    /\ \E k \in 1..Len(folders) :
            /\ ~folders[k].isDeleted
            /\ PUT_folder(DB, folders[k].userId, k, Str(folders[k].name)).status = 200
    /\ \E j \in 1..Len(files) :
            /\ ~files[j].isDeleted
            /\ PUT_file(DB, files[j].userId, j, Str(files[j].originalName)).status = 200

\* ------------------------------------------------------------------ C29
\* C29: whenever no request is in progress, however the requests before
\* were interleaved, every live folder and every live file with a parent
\* folder has a live parent folder
C29_NoOrphanAfterInterleaving ==
    inflight = <<>> /\ cascade = Idle =>
        /\ \A i \in 1..Len(folders) :
                ~folders[i].isDeleted /\ folders[i].parentId # NULL =>
                    ~folders[folders[i].parentId].isDeleted
        /\ \A j \in 1..Len(files) :
                ~files[j].isDeleted /\ files[j].folderId # NULL =>
                    ~folders[files[j].folderId].isDeleted

\* ------------------------------------------------------------------ C30
\* C30: after any navigateToFolder and goBack calls, folderHistory is not
\* empty and its last element is the id of currentFolder (null for root)
C30_CurrentIsLastOfHistory ==
    /\ Len(nav.folderHistory) >= 1
    /\ nav.currentFolder = nav.folderHistory[Len(nav.folderHistory)]

====
